---- MODULE Spec2Model ----
(***************************************************************************)
(* Model of the fixed-point spiking layer of train.py: Quantize, the LIF   *)
(* membrane update, BinarizeLinear (shadow weight), the recurrent cells    *)
(* GRU / SGRU / LSGRU and Get_HexData.                                     *)
(*                                                                         *)
(* Numbers.  A tensor element is modelled as one scalar.  A real value v   *)
(* is held as the integer v * UNIT with UNIT = 2^16, i.e. in steps of a    *)
(* quarter of the 2^-14 grid the code rounds to, so that values strictly   *)
(* between two grid points and values exactly halfway between them both    *)
(* exist.  Every value of the model has magnitude below 2^7 and is a       *)
(* multiple of 2^-16, so it, its product with 0.5 or 2^14 and its sum with *)
(* another such value are exact in float32: on these inputs the integer    *)
(* arithmetic below is the arithmetic torch performs.                      *)
(***************************************************************************)
EXTENDS Integers, Sequences, FiniteSets, TLC

VARIABLES
    q_pc, q_x, q_once, q_twice,                  \* two successive Quantize calls
    lif_pc, lif_inputs, lif_mem, lif_spike,      \* one LIF_mem_update call
    lif_out,
    cell_pc, cell_kind, x, hidden_seed, t,       \* one forward call of a cell
    RZGate, h2o,                                 \*   its two linear layers
    Encoding_mem, Encoding_spike,                \*   locals of forward
    RZgate_mem, RZgate_spike, hidden_spike, o_input,
    bl_layer, bl_log,                            \* one BinarizeLinear layer in use
    th_layer, th_w0, th_pc, th_tmp, th_out,      \* concurrent forward calls
    th_clones,
    hx_pc, binary_tensor, reversed_hex_data      \* one Get_HexData call

qVars    == <<q_pc, q_x, q_once, q_twice>>
lifVars  == <<lif_pc, lif_inputs, lif_mem, lif_spike, lif_out>>
cellVars == <<cell_pc, cell_kind, x, hidden_seed, t, RZGate, h2o,
              Encoding_mem, Encoding_spike, RZgate_mem, RZgate_spike,
              hidden_spike, o_input>>
blVars   == <<bl_layer, bl_log>>
thVars   == <<th_layer, th_w0, th_pc, th_tmp, th_out, th_clones>>
hxVars   == <<hx_pc, binary_tensor, reversed_hex_data>>
vars     == <<qVars, lifVars, cellVars, blVars, thVars, hxVars>>

\* everything outside one group
notQ    == <<lifVars, cellVars, blVars, thVars, hxVars>>
notSNN  == <<qVars, blVars, thVars, hxVars>>
notBL   == <<qVars, lifVars, cellVars, thVars, hxVars>>
notTH   == <<qVars, lifVars, cellVars, blVars, hxVars>>
notHX   == <<qVars, lifVars, cellVars, blVars, thVars>>

-----------------------------------------------------------------------------
(* Fixed-point representation *)

UNIT == 2^16                      \* model integer that stands for 1.0

\* the integer standing for the rational num/den (exact when den divides num*UNIT)
Real(num, den) == (num * UNIT) \div den

\* torch.round on the rational num/den, den > 0: nearest integer, ties to even
Round(num, den) ==
    LET q == num \div den
        r == num % den
    IN  IF 2 * r < den THEN q
        ELSE IF 2 * r > den THEN q + 1
        ELSE IF q % 2 = 0 THEN q ELSE q + 1

\* torch.clip(x, lo, hi)
Clip_lower_only(v, lo, hi) == IF v < lo THEN lo ELSE v
Clip(v, lo, hi) == IF v < lo THEN lo ELSE IF v > hi THEN hi ELSE v

\* torch.round(v * n) / n for a power of two n <= UNIT: v * n is v / (UNIT/n)
\* grid steps, and one grid step is UNIT/n model integers
RoundToGrid_halfscale(v, n) == Round(v, UNIT \div n) * (UNIT \div (2 * n))
RoundToGrid(v, n) == Round(v, UNIT \div n) * (UNIT \div n)

-----------------------------------------------------------------------------
(* Module-level constants, train.py lines 75-78 *)

thresh == Real(7, 8)              \* 0.875
decay  == <<1, 2>>                \* 0.5 as numerator, denominator

\* the literal 14.99993896484375 = 15 - 2^-14 of LIF_mem_update
MemBound == Real(15, 1) - UNIT \div 2^14

\* the literal 1.99993896484375 = 2 - 2^-14 of Quantize
QBound == Real(2, 1) - UNIT \div 2^14

-----------------------------------------------------------------------------
(* Quantize / Binarize, train.py lines 134-140 *)

Quantize(tensor, n_bit) ==
    LET n == 2^(n_bit - 2)
    IN  Clip(RoundToGrid(tensor, n), -QBound, QBound)

Binarize(tensor) == Quantize(tensor, 16)

-----------------------------------------------------------------------------
(* AcFun_adp.forward, train.py lines 87-89: input.gt(0).float() *)

act_fun_adp_ge(input) == IF input >= 0 THEN 1 ELSE 0
act_fun_adp_inverted(input) == IF input < 0 THEN 1 ELSE 0
act_fun_adp(input) == IF input > 0 THEN 1 ELSE 0

(* LIF_mem_update, train.py lines 118-128.  LIF_steps gives the values the *)
(* function body computes, in order.                                        *)

\* line 121, mem * decay * (1. - spike), as the numerator over decay[2]
Decayed_noreset(mem, spike) == mem * decay[1]
Decayed(mem, spike) == mem * decay[1] * (1 - spike)

LIF_steps(inputs, mem, spike) ==
    LET n  == 2^14
        \* mem = mem * decay * (1. - spike)
        m1 == Decayed(mem, spike)
        \* mem = torch.clip(torch.round(mem * n) / n, -B, B)
        m2 == Clip(Round(m1, decay[2] * (UNIT \div n)) * (UNIT \div n),
                   -MemBound, MemBound)
        \* mem = mem + inputs
        m3 == m2 + inputs
        \* mem = torch.clip(torch.round(mem * n) / n, -B, B)
        m4 == Clip(RoundToGrid(m3, n), -MemBound, MemBound)
    IN  [decayed |-> m2, summed |-> m3,
         mem |-> m4, spike |-> act_fun_adp(m4 - thresh)]

\* the pair (mem, spike) the function returns
LIF_mem_update(inputs, mem, spike) ==
    LET s == LIF_steps(inputs, mem, spike)
    IN  [mem |-> s.mem, spike |-> s.spike]

-----------------------------------------------------------------------------
(* Linear layers.  A layer with one output feature is the record            *)
(*   weight       weight.data, one value per input feature                  *)
(*   has_org, org whether the attribute weight.org exists, and its value    *)
(*   has_bias     bias is not None                                          *)
(*   bias         bias.data                                                 *)
(*   bias_has_org, bias_org   the attribute bias.org                        *)
(* The inputs of every layer of the cells are spikes, so an input is a      *)
(* sequence of small integers and input * weight is exact.                  *)

Layer(w, b_present, b) ==
    [weight |-> w, has_org |-> FALSE, org |-> <<>>,
     has_bias |-> b_present, bias |-> IF b_present THEN b ELSE 0,
     bias_has_org |-> FALSE, bias_org |-> 0]

RECURSIVE DotUpTo(_, _, _)
DotUpTo(input, weight, k) ==
    IF k = 0 THEN 0
    ELSE DotUpTo(input, weight, k - 1) + input[k] * weight[k]

\* nn.functional.linear(input, weight) for one output feature
linear(input, weight) == DotUpTo(input, weight, Len(weight))

\* nn.Linear.forward, the layers of GRU and SGRU (train.py lines 195-196, 233-234)
Linear_forward(layer, input) ==
    linear(input, layer.weight) + (IF layer.has_bias THEN layer.bias ELSE 0)

(* BinarizeLinear.forward, train.py lines 147-156 *)

\* lines 148-149: the shadow weight after the lazy initialisation
WeightOrg_reclone(layer) == layer.weight
WeightOrg(layer) == IF ~layer.has_org THEN layer.weight ELSE layer.org

\* line 150: the value assigned to weight.data
WeightData(org) == [i \in DOMAIN org |-> Binarize(org[i])]

\* lines 153-154: the bias shadow after the lazy initialisation
BiasOrg(layer) == IF ~layer.bias_has_org THEN layer.bias ELSE layer.bias_org

\* line 155: the value added to out, self.bias
BiasAdded(layer) == layer.bias

\* the whole call: the layer afterwards, the returned out, and the weight
\* and bias the call computed with
BinarizeLinear_forward(layer, input) ==
    LET org1 == WeightOrg(layer)
        w1   == WeightData(org1)
        out1 == linear(input, w1)
        l1   == [layer EXCEPT !.has_org = TRUE, !.org = org1, !.weight = w1]
        l2   == IF layer.has_bias
                THEN [l1 EXCEPT !.bias_has_org = TRUE, !.bias_org = BiasOrg(layer)]
                ELSE l1
        out2 == IF layer.has_bias THEN out1 + BiasAdded(layer) ELSE out1
    IN  [layer |-> l2, out |-> out2, used_weight |-> w1,
         bias_added |-> IF layer.has_bias THEN BiasAdded(layer) ELSE 0]

-----------------------------------------------------------------------------
(* Get_HexData, train.py lines 159-179.  The tensor is given flattened, as  *)
(* a sequence of bits; a Python string is the sequence of its characters.   *)

\* lines 164-166: pad with zeros up to a multiple of 4
Padded(flattened) ==
    IF Len(flattened) % 4 # 0
    THEN flattened \o [i \in 1..(4 - (Len(flattened) % 4)) |-> 0]
    ELSE flattened

\* line 168: flattened.view(-1, 4)
Grouped(flattened) ==
    [g \in 1..(Len(flattened) \div 4) |-> SubSeq(flattened, 4 * g - 3, 4 * g)]

\* line 169: torch.flip(grouped, dims=[-1]), on one group
Flip_identity(group) == group
Flip(group) == [i \in 1..Len(group) |-> group[Len(group) + 1 - i]]

\* line 173: "".join([str(bit.item()) for bit in group])
BinaryStr(group) == [i \in 1..Len(group) |-> IF group[i] = 1 THEN "1" ELSE "0"]

\* line 174: int(binary_str, 2)
RECURSIVE IntBase2(_)
IntBase2(str) ==
    IF str = <<>> THEN 0
    ELSE 2 * IntBase2(SubSeq(str, 1, Len(str) - 1))
             + (IF str[Len(str)] = "1" THEN 1 ELSE 0)

\* line 174: hex(v)[2:].upper(); v is the value of four binary digits, so the
\* result is one character
HexDigits ==
    <<"0", "1", "2", "3", "4", "5", "6", "7",
      "8", "9", "A", "B", "C", "D", "E", "F">>
HexUpper(v) == HexDigits[v + 1]

\* line 177: hex_data[::-1]
Reversed_identity(hex_data) == hex_data
Reversed(hex_data) == [i \in 1..Len(hex_data) |-> hex_data[Len(hex_data) + 1 - i]]

Get_HexData(tensor) ==
    LET grouped  == Grouped(Padded(tensor))
        hex_data == [g \in 1..Len(grouped) |->
                        HexUpper(IntBase2(BinaryStr(Flip(grouped[g]))))]
    IN  Reversed(hex_data)

-----------------------------------------------------------------------------
(* Input sets of the direct calls *)

QSpan   == 9      \* Quantize inputs run QSpan model steps around each probe
LIFSpan == 2      \* LIF inputs run LIFSpan model steps around each probe

Around(c, k) == {c + d : d \in -k..k}

\* Quantize inputs: around 0, around both clip bounds (inside, on, beyond,
\* on grid points, between them and exactly halfway), and far beyond
QVals ==
    Around(0, QSpan) \cup Around(QBound, QSpan) \cup Around(-QBound, QSpan)
        \cup {Real(3, 1), -Real(3, 1)}

\* LIF membrane / input values: around 0, the threshold, both range bounds,
\* twice the bound (halves to the bound under decay) and far outside
LIFVals ==
    Around(0, LIFSpan) \cup {thresh, thresh + 4, Real(1, 2)}
        \cup Around(MemBound, LIFSpan) \cup Around(-MemBound, LIFSpan)
        \cup {2 * MemBound, Real(40, 1), -Real(40, 1)}

-----------------------------------------------------------------------------
(* Direct calls: Quantize applied to a value and again to its result *)

InitQ ==
    /\ q_pc = "start"
    /\ q_x \in QVals
    /\ q_once = 0
    /\ q_twice = 0

IdleQ ==
    /\ q_pc = "idle"
    /\ q_x = 0
    /\ q_once = 0
    /\ q_twice = 0

QuantizeOnce ==
    /\ q_pc = "start"
    /\ q_once' = Quantize(q_x, 16)
    /\ q_pc' = "once"
    /\ UNCHANGED <<q_x, q_twice>>
    /\ UNCHANGED notQ

QuantizeTwice ==
    /\ q_pc = "once"
    /\ q_twice' = Quantize(q_once, 16)
    /\ q_pc' = "twice"
    /\ UNCHANGED <<q_x, q_once>>
    /\ UNCHANGED notQ

(* Direct call of LIF_mem_update(inputs, mem, spike) *)

NoLIF == [decayed |-> 0, summed |-> 0, mem |-> 0, spike |-> 0]

InitLIF ==
    /\ lif_pc = "start"
    /\ lif_inputs \in LIFVals
    /\ lif_mem \in LIFVals
    /\ lif_spike \in {0, 1}
    /\ lif_out = NoLIF

IdleLIF ==
    /\ lif_pc = "idle"
    /\ lif_inputs = 0
    /\ lif_mem = 0
    /\ lif_spike = 0
    /\ lif_out = NoLIF

CallLIF ==
    /\ lif_pc = "start"
    /\ lif_out' = LIF_steps(lif_inputs, lif_mem, lif_spike)
    /\ lif_pc' = "done"
    /\ UNCHANGED <<lif_inputs, lif_mem, lif_spike>>
    /\ UNCHANGED cellVars
    /\ UNCHANGED notSNN

-----------------------------------------------------------------------------
(* Recurrent cells GRU, SGRU, LSGRU (train.py lines 188-301), with          *)
(* input_size = hidden_size = output_size = 1 and batch 1.                  *)
(*                                                                          *)
(* GRU's hidden state is torch.sigmoid of the gate, a real number that is   *)
(* not on the fixed-point grid.  It is kept exactly, as the record          *)
(*   [h0 |-> seed, pre |-> <<c1, ..., ck>>]                                 *)
(* standing for the seed when pre is empty and otherwise for                *)
(*   h_k = sigmoid(c_k + w_h * h_(k-1)),  h_1 = sigmoid(c_1),               *)
(* where w_h is RZGate's weight on the hidden state and c_1 includes        *)
(* w_h * seed.  sigmoid of a finite argument is strictly between 0 and 1    *)
(* (in float32 for every argument above -103; the arguments here stay       *)
(* within +/-61), so such a value is 0 exactly when pre is empty and the    *)
(* seed is 0.                                                               *)

MaxT == 4         \* longest input sequence, x.size(1)

XVals == {0, Real(1, 1)}                                 \* silent, spiking
WVals == {-Real(20, 1), Real(1, 2) + 1, Real(20, 1)}     \* RZGate weights
BVals == {Real(1, 2), -Real(1, 1), Real(20, 1)}          \* RZGate bias
OVals == {Real(1, 2) + 1, -Real(3, 1)}                   \* h2o weight
OBias == Real(1, 4) + 1                                  \* h2o bias

XSeqs == UNION {[1..n -> XVals] : n \in 1..MaxT}

sigmoid_is_zero(h) == h.pre = <<>> /\ h.h0 = 0

InitCell ==
    /\ cell_pc = "start"
    /\ cell_kind \in {"GRU", "SGRU", "LSGRU"}
    /\ x \in XSeqs
    /\ hidden_seed \in {"None", "spike"}
    /\ t = 0
    /\ \E b_present \in BOOLEAN, w_x \in WVals, w_h \in WVals, b \in BVals, w_o \in OVals :
          /\ RZGate = Layer(<<w_x, w_h>>, b_present, b)
          /\ h2o = Layer(<<w_o>>, b_present, OBias)
    /\ Encoding_mem = <<>>
    /\ Encoding_spike = <<>>
    /\ RZgate_mem = 0
    /\ RZgate_spike = 0
    /\ hidden_spike = 0
    /\ o_input = 0

IdleCell ==
    /\ cell_pc = "idle"
    /\ cell_kind = "none"
    /\ x = <<>>
    /\ hidden_seed = "None"
    /\ t = 0
    /\ RZGate = Layer(<<>>, FALSE, 0)
    /\ h2o = Layer(<<>>, FALSE, 0)
    /\ Encoding_mem = <<>>
    /\ Encoding_spike = <<>>
    /\ RZgate_mem = 0
    /\ RZgate_spike = 0
    /\ hidden_spike = 0
    /\ o_input = 0

\* forward up to the time loop (lines 209-215, 245-253, 284-292): the hidden
\* state is zero unless seeded, the gate membrane and spike are zero, and the
\* whole input sequence is encoded by one LIF update from zero state
Cell_encode ==
    /\ cell_pc = "start"
    /\ LET seed == IF hidden_seed = "None" THEN 0 ELSE 1
           enc  == [i \in DOMAIN x |-> LIF_mem_update(x[i], 0, 0)]
       IN  /\ hidden_spike' = IF cell_kind = "GRU"
                              THEN [h0 |-> seed, pre |-> <<>>]
                              ELSE seed
           /\ Encoding_mem' = [i \in DOMAIN x |-> enc[i].mem]
           /\ Encoding_spike' = [i \in DOMAIN x |-> enc[i].spike]
    /\ RZgate_mem' = 0
    /\ RZgate_spike' = 0
    /\ t' = 0
    /\ cell_pc' = "loop"
    /\ UNCHANGED <<cell_kind, x, hidden_seed, RZGate, h2o, o_input>>
    /\ UNCHANGED lifVars
    /\ UNCHANGED notSNN

\* one iteration of GRU's loop, lines 217-221
GRU_step ==
    /\ cell_pc = "loop"
    /\ cell_kind = "GRU"
    /\ t < Len(x)
    /\ LET X_spike == Encoding_spike[t + 1]
           first   == hidden_spike.pre = <<>>
           c       == Linear_forward(RZGate,
                          <<X_spike, IF first THEN hidden_spike.h0 ELSE 0>>)
           h       == [hidden_spike EXCEPT !.pre = Append(@, c)]
       IN  /\ hidden_spike' = h
           /\ o_input' = [h2o |-> h2o, of |-> h]
    /\ t' = t + 1
    /\ UNCHANGED <<cell_pc, cell_kind, x, hidden_seed, RZGate, h2o,
                   Encoding_mem, Encoding_spike, RZgate_mem, RZgate_spike>>
    /\ UNCHANGED lifVars
    /\ UNCHANGED notSNN

\* one iteration of SGRU's loop, lines 255-261
SGRU_step ==
    /\ cell_pc = "loop"
    /\ cell_kind = "SGRU"
    /\ t < Len(x)
    /\ LET X_spike  == Encoding_spike[t + 1]
           x_in     == <<X_spike, hidden_spike>>
           RZgate_x == Linear_forward(RZGate, x_in)
           lif      == LIF_mem_update(RZgate_x, RZgate_mem, RZgate_spike)
       IN  /\ RZgate_mem' = lif.mem
           /\ RZgate_spike' = lif.spike
           /\ hidden_spike' = lif.spike
           /\ o_input' = Linear_forward(h2o, <<lif.spike>>)
    /\ t' = t + 1
    /\ UNCHANGED <<cell_pc, cell_kind, x, hidden_seed, RZGate, h2o,
                   Encoding_mem, Encoding_spike>>
    /\ UNCHANGED lifVars
    /\ UNCHANGED notSNN

\* one iteration of LSGRU's loop, lines 294-300: both layers are
\* BinarizeLinear, whose forward also updates the layer
LSGRU_step ==
    /\ cell_pc = "loop"
    /\ cell_kind = "LSGRU"
    /\ t < Len(x)
    /\ LET X_spike == Encoding_spike[t + 1]
           x_in    == <<X_spike, hidden_spike>>
           gate    == BinarizeLinear_forward(RZGate, x_in)
           lif     == LIF_mem_update(gate.out, RZgate_mem, RZgate_spike)
           outp    == BinarizeLinear_forward(h2o, <<lif.spike>>)
       IN  /\ RZGate' = gate.layer
           /\ RZgate_mem' = lif.mem
           /\ RZgate_spike' = lif.spike
           /\ hidden_spike' = lif.spike
           /\ h2o' = outp.layer
           /\ o_input' = outp.out
    /\ t' = t + 1
    /\ UNCHANGED <<cell_pc, cell_kind, x, hidden_seed, Encoding_mem, Encoding_spike>>
    /\ UNCHANGED lifVars
    /\ UNCHANGED notSNN

\* return o_input after the last timestep, lines 222, 262, 301
Cell_return ==
    /\ cell_pc = "loop"
    /\ t = Len(x)
    /\ cell_pc' = "done"
    /\ UNCHANGED <<cell_kind, x, hidden_seed, t, RZGate, h2o, Encoding_mem,
                   Encoding_spike, RZgate_mem, RZgate_spike, hidden_spike, o_input>>
    /\ UNCHANGED lifVars
    /\ UNCHANGED notSNN

-----------------------------------------------------------------------------
(* One BinarizeLinear layer (in_features = out_features = 1) used the ways  *)
(* run_train_and_export uses a model: forward calls, the optimizer's step   *)
(* after a forward and backward pass, and load_state_dict.  bl_log records  *)
(* every operation, in order, as                                            *)
(*   [op, arg, before, after, out, used_weight, bias_added]                 *)
(* with the layer before and after it; the last three are those of a        *)
(* forward call.                                                            *)

MaxOps == 3       \* operations on the layer in one run

W0Vals   == {Real(1, 2) + 1, Real(3, 1) + 2}       \* initial weight.data
B0Vals   == {Real(1, 4) + 1}                       \* initial bias.data
Deltas   == {8, -9}                                \* an optimizer update
LoadVals == {Real(1, 4), 3 - Real(1, 1)}           \* values of a checkpoint
Inputs   == {<<0>>, <<1>>}                         \* a spike or none

InitBL ==
    /\ \E w \in W0Vals, b_present \in BOOLEAN, b \in B0Vals :
          bl_layer = Layer(<<w>>, b_present, b)
    /\ bl_log = <<>>

IdleBL ==
    /\ bl_layer = Layer(<<>>, FALSE, 0)
    /\ bl_log = <<>>

Event(op, arg, before, after, out, used_weight, bias_added) ==
    [op |-> op, arg |-> arg, before |-> before, after |-> after,
     out |-> out, used_weight |-> used_weight, bias_added |-> bias_added]

\* out = layer(input), train.py lines 147-156
BL_forward(input) ==
    /\ Len(bl_log) < MaxOps
    /\ LET r == BinarizeLinear_forward(bl_layer, input)
       IN  /\ bl_layer' = r.layer
           /\ bl_log' = Append(bl_log,
                  Event("forward", input, bl_layer, r.layer,
                        r.out, r.used_weight, r.bias_added))
    /\ UNCHANGED notBL

\* optimizer.step() after loss.backward(), train.py lines 412-413: Adam
\* updates the data of each parameter in place; attributes of the parameter
\* object (org) are not parameters and stay as they are
Optimizer_step(dw, db) ==
    /\ Len(bl_log) < MaxOps
    /\ bl_log # <<>>
    /\ bl_log[Len(bl_log)].op = "forward"
    /\ LET l == [bl_layer EXCEPT
                    !.weight = [i \in DOMAIN @ |-> @[i] + dw],
                    !.bias = IF bl_layer.has_bias THEN @ + db ELSE @]
       IN  /\ bl_layer' = l
           /\ bl_log' = Append(bl_log,
                  Event("step", [w |-> dw, b |-> db], bl_layer, l, 0, <<>>, 0))
    /\ UNCHANGED notBL

\* model.load_state_dict(...), train.py lines 383, 454, 464: the loaded
\* values are copied into the data of the existing parameters; attributes
\* of the parameter object (org) stay as they are
Load_state_dict(w, b) ==
    /\ Len(bl_log) < MaxOps
    /\ LET l == [bl_layer EXCEPT
                    !.weight = <<w>>,
                    !.bias = IF bl_layer.has_bias THEN b ELSE @]
       IN  /\ bl_layer' = l
           /\ bl_log' = Append(bl_log,
                  Event("load", [w |-> <<w>>, b |-> b], bl_layer, l, 0, <<>>, 0))
    /\ UNCHANGED notBL

-----------------------------------------------------------------------------
(* Concurrent forward calls on one BinarizeLinear layer, one per thread.    *)
(* forward holds no lock, so the threads interleave between the reads and   *)
(* writes of its statements; each action below is one such read or write.   *)
(* th_tmp is the thread's value not yet assigned, th_out its local out,     *)
(* th_clones counts the assignments to weight.org.                          *)

NThreads == 2

Threads == 1..NThreads

InitTH ==
    /\ \E w \in W0Vals, b_present \in BOOLEAN, b \in B0Vals :
          /\ th_layer = Layer(<<w>>, b_present, b)
          /\ th_w0 = <<w>>
    /\ th_pc = [th \in Threads |-> "hasattr_weight"]
    /\ th_tmp = [th \in Threads |-> <<>>]
    /\ th_out = [th \in Threads |-> 0]
    /\ th_clones = 0

IdleTH ==
    /\ th_layer = Layer(<<>>, FALSE, 0)
    /\ th_w0 = <<>>
    /\ th_pc = <<>>
    /\ th_tmp = <<>>
    /\ th_out = <<>>
    /\ th_clones = 0

\* line 148: if not hasattr(self.weight, "org")
TH_hasattr_weight(th) ==
    /\ th_pc[th] = "hasattr_weight"
    /\ th_pc' = [th_pc EXCEPT ![th] =
                    IF ~th_layer.has_org THEN "clone_weight" ELSE "binarize"]
    /\ UNCHANGED <<th_layer, th_w0, th_tmp, th_out, th_clones>>
    /\ UNCHANGED notTH

\* line 149, right-hand side: self.weight.data.clone()
TH_clone_weight(th) ==
    /\ th_pc[th] = "clone_weight"
    /\ th_tmp' = [th_tmp EXCEPT ![th] = th_layer.weight]
    /\ th_pc' = [th_pc EXCEPT ![th] = "set_org"]
    /\ UNCHANGED <<th_layer, th_w0, th_out, th_clones>>
    /\ UNCHANGED notTH

\* line 149, assignment: self.weight.org = ...
TH_set_org(th) ==
    /\ th_pc[th] = "set_org"
    /\ th_layer' = [th_layer EXCEPT !.has_org = TRUE, !.org = th_tmp[th]]
    /\ th_clones' = th_clones + 1
    /\ th_pc' = [th_pc EXCEPT ![th] = "binarize"]
    /\ UNCHANGED <<th_w0, th_tmp, th_out>>
    /\ UNCHANGED notTH

\* line 150, right-hand side: Binarize(self.weight.org)
TH_binarize(th) ==
    /\ th_pc[th] = "binarize"
    /\ th_tmp' = [th_tmp EXCEPT ![th] = WeightData(th_layer.org)]
    /\ th_pc' = [th_pc EXCEPT ![th] = "set_data"]
    /\ UNCHANGED <<th_layer, th_w0, th_out, th_clones>>
    /\ UNCHANGED notTH

\* line 150, assignment: self.weight.data = ...
TH_set_data(th) ==
    /\ th_pc[th] = "set_data"
    /\ th_layer' = [th_layer EXCEPT !.weight = th_tmp[th]]
    /\ th_pc' = [th_pc EXCEPT ![th] = "linear"]
    /\ UNCHANGED <<th_w0, th_tmp, th_out, th_clones>>
    /\ UNCHANGED notTH

\* lines 151-152: out = nn.functional.linear(input, self.weight), on a spike
TH_linear(th) ==
    /\ th_pc[th] = "linear"
    /\ th_out' = [th_out EXCEPT ![th] = linear(<<1>>, th_layer.weight)]
    /\ th_pc' = [th_pc EXCEPT ![th] =
                    IF th_layer.has_bias THEN "hasattr_bias" ELSE "return"]
    /\ UNCHANGED <<th_layer, th_w0, th_tmp, th_clones>>
    /\ UNCHANGED notTH

\* line 153: if not hasattr(self.bias, "org")
TH_hasattr_bias(th) ==
    /\ th_pc[th] = "hasattr_bias"
    /\ th_pc' = [th_pc EXCEPT ![th] =
                    IF ~th_layer.bias_has_org THEN "clone_bias" ELSE "add_bias"]
    /\ UNCHANGED <<th_layer, th_w0, th_tmp, th_out, th_clones>>
    /\ UNCHANGED notTH

\* line 154: self.bias.org = self.bias.data.clone(); no forward call writes
\* bias.data, so the clone and the assignment are taken as one step
TH_clone_bias(th) ==
    /\ th_pc[th] = "clone_bias"
    /\ th_layer' = [th_layer EXCEPT !.bias_has_org = TRUE, !.bias_org = th_layer.bias]
    /\ th_pc' = [th_pc EXCEPT ![th] = "add_bias"]
    /\ UNCHANGED <<th_w0, th_tmp, th_out, th_clones>>
    /\ UNCHANGED notTH

\* line 155: out += self.bias
TH_add_bias(th) ==
    /\ th_pc[th] = "add_bias"
    /\ th_out' = [th_out EXCEPT ![th] = @ + BiasAdded(th_layer)]
    /\ th_pc' = [th_pc EXCEPT ![th] = "return"]
    /\ UNCHANGED <<th_layer, th_w0, th_tmp, th_clones>>
    /\ UNCHANGED notTH

\* line 156: return out
TH_return(th) ==
    /\ th_pc[th] = "return"
    /\ th_pc' = [th_pc EXCEPT ![th] = "done"]
    /\ UNCHANGED <<th_layer, th_w0, th_tmp, th_out, th_clones>>
    /\ UNCHANGED notTH

-----------------------------------------------------------------------------
(* One call of Get_HexData on a flat tensor of bits *)

MaxBits == 8      \* longest flattened tensor

BitSeqs == UNION {[1..n -> {0, 1}] : n \in 0..MaxBits}

InitHX ==
    /\ hx_pc = "start"
    /\ binary_tensor \in BitSeqs
    /\ reversed_hex_data = <<>>

IdleHX ==
    /\ hx_pc = "idle"
    /\ binary_tensor = <<>>
    /\ reversed_hex_data = <<>>

CallHex ==
    /\ hx_pc = "start"
    /\ reversed_hex_data' = Get_HexData(binary_tensor)
    /\ hx_pc' = "done"
    /\ UNCHANGED binary_tensor
    /\ UNCHANGED notHX

-----------------------------------------------------------------------------
(* Specifications *)

\* two successive Quantize calls
InitQuantize == InitQ /\ IdleLIF /\ IdleCell /\ IdleBL /\ IdleTH /\ IdleHX
NextQuantize == QuantizeOnce \/ QuantizeTwice
SpecQuantize == InitQuantize /\ [][NextQuantize]_vars

\* the spiking network: either one direct call of LIF_mem_update or one
\* forward call of a recurrent cell
InitSNN ==
    /\ IdleQ /\ IdleBL /\ IdleTH /\ IdleHX
    /\ \/ InitLIF /\ IdleCell
       \/ IdleLIF /\ InitCell
NextSNN ==
    \/ CallLIF
    \/ Cell_encode
    \/ GRU_step
    \/ SGRU_step
    \/ LSGRU_step
    \/ Cell_return
SpecSNN == InitSNN /\ [][NextSNN]_vars

\* one BinarizeLinear layer under forward, optimizer step and load_state_dict
InitLayer == IdleQ /\ IdleLIF /\ IdleCell /\ InitBL /\ IdleTH /\ IdleHX
NextLayer ==
    \/ \E input \in Inputs : BL_forward(input)
    \/ \E dw \in Deltas, db \in Deltas : Optimizer_step(dw, db)
    \/ \E w \in LoadVals, b \in LoadVals : Load_state_dict(w, b)
SpecLayer == InitLayer /\ [][NextLayer]_vars

\* forward calls of several threads on one BinarizeLinear layer
InitThreads == IdleQ /\ IdleLIF /\ IdleCell /\ IdleBL /\ InitTH /\ IdleHX
NextThreads ==
    \E th \in Threads :
        \/ TH_hasattr_weight(th)
        \/ TH_clone_weight(th)
        \/ TH_set_org(th)
        \/ TH_binarize(th)
        \/ TH_set_data(th)
        \/ TH_linear(th)
        \/ TH_hasattr_bias(th)
        \/ TH_clone_bias(th)
        \/ TH_add_bias(th)
        \/ TH_return(th)
SpecThreads == InitThreads /\ [][NextThreads]_vars

\* one Get_HexData call
InitHex == IdleQ /\ IdleLIF /\ IdleCell /\ IdleBL /\ IdleTH /\ InitHX
NextHex == CallHex
SpecHex == InitHex /\ [][NextHex]_vars

-----------------------------------------------------------------------------
(* Properties *)

InRange(m) == -MemBound <= m /\ m <= MemBound

\* C1: LIF_mem_update returns a membrane within +/-14.99993896484375 for
\* every mem, input and spike, also when mem or the input lies outside the
\* range; the result is exactly the bound whenever the value before the last
\* clip exceeds it; and the gate membrane of SGRU / LSGRU is within the range
\* after every timestep.
C1_MembraneClipped ==
    /\ lif_pc = "done" =>
          /\ InRange(lif_out.mem)
          /\ lif_out.summed > MemBound => lif_out.mem = MemBound
          /\ lif_out.summed < -MemBound => lif_out.mem = -MemBound
    /\ cell_kind \in {"SGRU", "LSGRU"} => InRange(RZgate_mem)

\* a call with the membrane and the sum above the range returned the bound
C1_Witness ==
    /\ lif_pc = "done"
    /\ lif_mem > MemBound
    /\ lif_spike = 0
    /\ lif_out.summed > MemBound
    /\ lif_out.mem = MemBound

\* C9: with spike = 1 the previous membrane contributes nothing: the result
\* is the input alone, rounded to the 2^-14 grid and clipped to the membrane
\* range, whatever mem was.
C9_SpikeResets ==
    (lif_pc = "done" /\ lif_spike = 1) =>
        lif_out.mem = Clip(RoundToGrid(lif_inputs, 2^14), -MemBound, MemBound)

\* a call with spike = 1, a large previous membrane and an off-grid input
C9_Witness ==
    /\ lif_pc = "done"
    /\ lif_spike = 1
    /\ lif_mem = 2 * MemBound
    /\ lif_inputs = thresh + 4
    /\ lif_out.mem = thresh + 4

\* C11: the spike LIF_mem_update returns is 0 or 1, and it is 1 exactly when
\* the returned membrane is above 0.875 (a membrane equal to 0.875 gives 0);
\* so the gate spike and the hidden spike of SGRU / LSGRU are 0 or 1 after
\* every timestep, the gate spike following the gate membrane the same way.
C11_SpikeStrictThreshold ==
    /\ lif_pc = "done" =>
          /\ lif_out.spike \in {0, 1}
          /\ lif_out.spike = 1 <=> lif_out.mem > Real(7, 8)
    /\ (cell_kind \in {"SGRU", "LSGRU"} /\ cell_pc \in {"loop", "done"}) =>
          /\ hidden_spike \in {0, 1}
          /\ \A i \in DOMAIN Encoding_spike :
                /\ Encoding_spike[i] \in {0, 1}
                /\ Encoding_spike[i] = 1 <=> Encoding_mem[i] > Real(7, 8)
          /\ t >= 1 =>
                /\ hidden_spike = RZgate_spike
                /\ RZgate_spike = 1 <=> RZgate_mem > Real(7, 8)

\* a call returned a membrane of exactly 0.875, built from a nonzero
\* previous membrane and a nonzero input, and did not spike
C11_Witness ==
    /\ lif_pc = "done"
    /\ lif_spike = 0
    /\ lif_mem # 0
    /\ lif_inputs # 0
    /\ lif_out.mem = Real(7, 8)
    /\ lif_out.spike = 0

ZeroInput == \A i \in DOMAIN x : x[i] = 0

InLoop == cell_pc \in {"loop", "done"}

\* C6 as stated: for GRU, SGRU and LSGRU, with or without bias and for any
\* weights, an all-zero input with an unseeded hidden state never takes a
\* membrane above the threshold 0.875 at any timestep, and the hidden spike
\* stays all zero.  (GRU's hidden state is a sigmoid output and not a spike;
\* for GRU only the membranes are constrained.)
C6_ZeroInputNeverSpikes ==
    (InLoop /\ ZeroInput /\ hidden_seed = "None") =>
        /\ \A i \in DOMAIN Encoding_mem : Encoding_mem[i] <= thresh
        /\ RZgate_mem <= thresh
        /\ cell_kind \in {"SGRU", "LSGRU"} => hidden_spike = 0

\* C6 amended: for GRU, SGRU and LSGRU built without bias, for any weights,
\* an all-zero input with an unseeded hidden state never takes a membrane
\* above the threshold at any timestep: the encoded membranes and spikes and
\* the gate membrane and spike stay zero, and the hidden spike of SGRU and
\* LSGRU stays all zero (GRU's hidden state is a sigmoid output, nonzero
\* after the first timestep).
C6_ZeroInputNoBiasSilent ==
    (InLoop /\ ZeroInput /\ hidden_seed = "None" /\ ~RZGate.has_bias) =>
        /\ \A i \in DOMAIN Encoding_mem : Encoding_mem[i] = 0
        /\ \A i \in DOMAIN Encoding_spike : Encoding_spike[i] = 0
        /\ RZgate_mem = 0
        /\ RZgate_spike = 0
        /\ cell_kind \in {"SGRU", "LSGRU"} => hidden_spike = 0
        /\ (cell_kind = "GRU" /\ t >= 1) => ~sigmoid_is_zero(hidden_spike)

\* an LSGRU without bias has run all timesteps of the longest zero input
C6_Witness ==
    /\ cell_pc = "done"
    /\ cell_kind = "LSGRU"
    /\ ~RZGate.has_bias
    /\ RZGate.has_org
    /\ ZeroInput
    /\ hidden_seed = "None"
    /\ Len(x) = MaxT
    /\ t = MaxT
    /\ hidden_spike = 0

\* C2: Quantize at 16 bits is idempotent: quantizing an already quantized
\* value returns it unchanged, for every input, also beyond the clip bound
\* and exactly halfway between two grid points.
C2_QuantizeIdempotent ==
    q_pc = "twice" => q_twice = q_once

\* an input beyond the clip bound and exactly halfway between two grid points
\* has been quantized twice
C2_Witness ==
    /\ q_pc = "twice"
    /\ q_x > Real(2, 1)
    /\ q_x % 4 = 2
    /\ q_once = Real(2, 1) - 4

Forwards == {i \in DOMAIN bl_log : bl_log[i].op = "forward"}

\* C3: two forward calls on the same input with no optimizer step (and no
\* load) between them return the same output, and the shadow weight after
\* the second call equals the shadow weight after the first.
C3_ForwardRepeatable ==
    \A i \in Forwards :
        (i + 1 \in Forwards /\ bl_log[i + 1].arg = bl_log[i].arg) =>
            /\ bl_log[i + 1].out = bl_log[i].out
            /\ bl_log[i + 1].after.org = bl_log[i].after.org

\* the first two calls of a layer with bias and an off-grid weight were
\* forward calls on a spike
C3_Witness ==
    /\ Len(bl_log) >= 2
    /\ bl_log[1].op = "forward" /\ bl_log[2].op = "forward"
    /\ bl_log[1].arg = <<1>> /\ bl_log[2].arg = <<1>>
    /\ bl_log[1].before.has_bias
    /\ bl_log[1].before.weight # bl_log[1].used_weight
    /\ bl_log[2].out = bl_log[1].out

\* C4: in forward -> optimizer step -> forward the optimizer's update reaches
\* the shadow weight, and the second forward computes with the 16-bit
\* quantization of the updated shadow weight.
C4_StepReachesShadow ==
    \A i \in Forwards :
        (i + 2 \in Forwards /\ bl_log[i + 1].op = "step") =>
            LET updated == [k \in DOMAIN bl_log[i].after.org |->
                               bl_log[i].after.org[k] + bl_log[i + 1].arg.w]
            IN  /\ bl_log[i + 2].after.org = updated
                /\ bl_log[i + 2].used_weight = WeightData(updated)

\* C5: the bias of a BinarizeLinear layer is cloned into a bias shadow on
\* the first forward, and every forward adds Quantize(bias shadow, 16) to
\* the output.
C5_BiasQuantized ==
    \A i \in Forwards :
        bl_log[i].before.has_bias =>
            /\ ~bl_log[i].before.bias_has_org =>
                   bl_log[i].after.bias_org = bl_log[i].before.bias
            /\ bl_log[i].after.bias_has_org
            /\ bl_log[i].bias_added = Quantize(bl_log[i].after.bias_org, 16)

\* C10: the forward call that follows load_state_dict re-seeds the shadow
\* weight from the loaded value and computes with Quantize(loaded value, 16),
\* whether or not the layer ran a forward call before the load.
C10_LoadReseedsShadow ==
    \A i \in DOMAIN bl_log :
        (bl_log[i].op = "load" /\ i + 1 \in Forwards) =>
            /\ bl_log[i + 1].after.org = bl_log[i].arg.w
            /\ bl_log[i + 1].used_weight = WeightData(bl_log[i].arg.w)

\* C8: concurrent forward calls on a layer whose shadow weight is not yet
\* initialised clone the shadow exactly once, and when all calls have
\* returned the shadow equals the weight the layer held before any of them
\* started.
C8_ShadowClonedOnce ==
    (\A th \in Threads : th_pc[th] = "done") =>
        /\ th_clones = 1
        /\ th_layer.org = th_w0

\* value of one uppercase hex digit
DigitValue(c) ==
    CHOOSE v \in 0..15 :
        <<"0", "1", "2", "3", "4", "5", "6", "7",
          "8", "9", "A", "B", "C", "D", "E", "F">>[v + 1] = c

\* bit j (from 0) of the tensor, missing bits taken as 0
BitAt(j) == IF j < Len(binary_tensor) THEN binary_tensor[j + 1] ELSE 0

\* C7: for n bits Get_HexData returns G = ceil(n/4) strings, each one
\* uppercase hex digit, and the digit at output position k (from 0) has the
\* value sum over i in 0..3 of b[4*(G-1-k)+i] * 2^i; [1,0,1,0,1,1,0,0] gives
\* '3' then '5'.
C7_HexDigits ==
    hx_pc = "done" =>
        LET G == (Len(binary_tensor) + 3) \div 4
        IN  /\ Len(reversed_hex_data) = G
            /\ \A k \in 0..(G - 1) :
                  LET d == reversed_hex_data[k + 1]
                      j == 4 * (G - 1 - k)
                  IN  /\ d \in {"0", "1", "2", "3", "4", "5", "6", "7",
                                "8", "9", "A", "B", "C", "D", "E", "F"}
                      /\ DigitValue(d) = BitAt(j) + 2 * BitAt(j + 1)
                                           + 4 * BitAt(j + 2) + 8 * BitAt(j + 3)
            /\ binary_tensor = <<1, 0, 1, 0, 1, 1, 0, 0>> =>
                  reversed_hex_data = <<"3", "5">>

\* the literal pattern of eight bits has been packed
C7_Witness ==
    /\ hx_pc = "done"
    /\ binary_tensor = <<1, 0, 1, 0, 1, 1, 0, 0>>
    /\ reversed_hex_data = <<"3", "5">>

====
